---- MODULE Spec2Model ----
(***************************************************************************)
(* OnlinePBX call notification bot: the new-call delivery pipeline         *)
(* (handlers.process_new_calls), its checkpoint files (utils), the         *)
(* call-history client (api), the process entry point (main) and the       *)
(* "check" / "cancel" commands (bot_commands).                             *)
(*                                                                         *)
(* A call id (uuid) is a number 1..MaxCalls; 0 stands for the empty string.*)
(* Each invocation of process_new_calls is a process with a program        *)
(* counter; its local variables keep the names they have in the source.    *)
(***************************************************************************)
EXTENDS Integers, Sequences, FiniteSets, TLC

\* ---------------------------------------------------------------- bounds
MaxCalls == 2
MaxClock == 1
MaxInv == 3
MaxRetryAfter == 1
MaxLate == 1
MaxCrash == 1
MaxFaults == 2
MaxFiles == 2
MaxField == 2

\* ------------------------------------------------------ program constants
OneDay == 86400
RateMargin == 1
\* time.sleep(1) after a call of the main path
SendDelay == 1

\* A checkpoint file that does not exist (os.path.exists is False).
Absent == 0 - 1
\* A checkpoint file left empty by open(path, 'w') when the process died
\* before f.write.
Torn == 0 - 2

Main == "main"
Workers == {"w1", "w2"}
Procs == {Main} \cup Workers
Users == {"u1"}

Uuids == 1..MaxCalls

\* ------------------------------------------------------------ pure helpers
\* An entry check that lets every invocation through.
NeverFails(ok) == FALSE

\* if not api.authenticate(): authenticate returns True or False.
AuthFailed(ok) == ~ok

\* api.get_call_details: the list of the window, or None after a request or
\* API error.
GetCallDetails(ok, cs) == [error |-> ~ok, list |-> IF ok THEN cs ELSE <<>>]

\* A test that lets only the empty list through.
OnlyEmpty(r) == ~r.error /\ r.list = <<>>

\* if not call_details: true of None and of the empty list.
NotCallDetails(r) == r.error \/ r.list = <<>>

\* The provider's answer to a history request: the records whose start_stamp
\* lies in the closed window, in the order the provider holds them.
Window(cs, from, to) ==
    SelectSeq(cs, LAMBDA c : c.start_stamp >= from /\ c.start_stamp <= to)

\* An insertion that puts a record before the records with an equal key.
RECURSIVE InsertUnstable(_, _)
InsertUnstable(s, c) ==
    IF s = <<>> THEN <<c>>
    ELSE IF s[Len(s)].start_stamp < c.start_stamp THEN Append(s, c)
    ELSE Append(InsertUnstable(SubSeq(s, 1, Len(s) - 1), c), s[Len(s)])

\* sorted(call_details, key=start_stamp): Python's sort is stable, so a record
\* goes after every record with a smaller or equal key that precedes it.
RECURSIVE InsertStable(_, _)
InsertStable(s, c) ==
    IF s = <<>> THEN <<c>>
    ELSE IF s[Len(s)].start_stamp <= c.start_stamp THEN Append(s, c)
    ELSE Append(InsertStable(SubSeq(s, 1, Len(s) - 1), c), s[Len(s)])

RECURSIVE StableSort(_)
StableSort(cs) ==
    IF cs = <<>> THEN <<>>
    ELSE InsertStable(StableSort(SubSeq(cs, 1, Len(cs) - 1)), cs[Len(cs)])

\* The calls left in the order the provider returned them.
Unsorted(cs) == cs

\* sorted_calls = sorted(call_details, key=lambda x: x.get('start_stamp', 0))
SortedCalls(cs) == StableSort(cs)

\* A loop that starts sending at the first call whatever the last uuid is.
AlwaysFound(lu) == TRUE

\* found_last_call = False if last_uuid else True
InitialFound(lu) == lu = 0

\* A scan that takes any call for the last processed one.
MatchesAny(uuid, lu) == TRUE

\* if uuid == last_uuid: found_last_call = True
MatchesLast(uuid, lu) == uuid = lu

\* A reader that returns the default without saving it.
DefaultNotSaved(file, now) ==
    IF file = Absent THEN [value |-> now - OneDay, file |-> Absent]
    ELSE IF file = Torn THEN [value |-> now, file |-> now]
    ELSE [value |-> file, file |-> file]

\* get_last_check_time: the value returned and the file afterwards.
GetLastCheckTime(file, now) ==
    IF file = Absent THEN [value |-> now - OneDay, file |-> now - OneDay]
    ELSE IF file = Torn THEN [value |-> now, file |-> now]
    ELSE [value |-> file, file |-> file]

\* A reader that finds no last uuid whatever the file holds.
NoLastCallUuid(file) == 0

\* get_last_call_uuid: "" when the file is absent, else its stripped content.
GetLastCallUuid(file) == IF file = Absent THEN 0 ELSE file

\* call.get('hangup_cause', 'Unknown'): a record of the provider may lack
\* the key or hold null for it.
HangupCause(c) ==
    IF "hangup_cause" \in DOMAIN c THEN c.hangup_cause ELSE "Unknown"

\* format_call_details evaluates hangup_cause.replace('_', ' ').title() as
\* the default of HANGUP_CAUSES.get whatever the cause is; for null it raises
\* AttributeError.
FormatRaises(c) == HangupCause(c) = "null"

\* message = format_call_details(call): the text of one call, told from the
\* text of any other call by the call's uuid.
MessageOf(c) == c.uuid

\* What a channel send can answer: delivered, an ApiTelegramException whose
\* text holds "retry after <n>", one whose text matches case-insensitively but
\* cannot be parsed, another ApiTelegramException, or any other exception.
Outcomes ==
    {[kind |-> "ok", n |-> 0], [kind |-> "apierr", n |-> 0],
     [kind |-> "exc", n |-> 0], [kind |-> "ratebad", n |-> 0]}
    \cup {[kind |-> "rate", n |-> k] : k \in 1..MaxRetryAfter}

\* ------------------------------------------------------------------ state
VARIABLES
    clock,        \* time.time()
    calls,        \* the provider's call history, in the order it holds it
    timeFile,     \* LAST_CHECK_FILE
    uuidFile,     \* LAST_CALL_UUID_FILE
    inv,          \* per process: the locals of the function it is running
    mode,         \* where the main thread of main.py is
    user_locks,   \* utils.user_locks
    owner,        \* per worker: the user whose command it runs
    invNo,        \* number of invocations started so far
    sentCount,    \* per call id: messages delivered to the channel (up to 2)
    degraded,     \* the undelivered call ids whose every attempt failed in an invocation
    faults,       \* channel sends that failed so far (at most MaxFaults)
    crash         \* what the last crash interrupted

vars == <<clock, calls, timeFile, uuidFile, inv, mode, user_locks, owner,
          invNo, sentCount, degraded, faults, crash>>

IdleLocals ==
    [pc |-> "idle", no |-> 0, last_check |-> 0, current_time |-> 0,
     last_uuid |-> 0, call_details |-> <<>>, sorted_calls |-> <<>>, idx |-> 0,
     found_last_call |-> FALSE, processed_count |-> 0,
     retry_time |-> 0, ret |-> 0, attempts |-> <<>>, slept |-> 0,
     sent |-> {}, started |-> <<>>,
     authed |-> FALSE, fetched |-> "no", sent_audio |-> FALSE,
     message |-> 0, period |-> "",
     archive |-> "", temp_dir |-> "unset", audio_files |-> <<>>,
     made |-> 0, removed |-> 0]

NoCrash == [n |-> 0, no |-> 0, uuid |-> 0]

Init ==
    /\ clock = OneDay
    /\ calls = <<>>
    /\ timeFile = Absent
    /\ uuidFile = Absent
    /\ inv = [p \in Procs |-> IdleLocals]
    /\ mode = "startup"
    /\ user_locks = [u \in Users |-> FALSE]
    /\ owner = [w \in Workers |-> "u1"]
    /\ invNo = 0
    /\ sentCount = [u \in Uuids |-> 0]
    /\ degraded = {}
    /\ faults = 0
    /\ crash = NoCrash

env == <<clock, calls>>
files == <<timeFile, uuidFile>>
ctl == <<mode, user_locks, owner>>
hist == <<sentCount, degraded, faults>>

\* The record the for loop of process_new_calls is at.
Cur(p) == inv[p].sorted_calls[inv[p].idx]

InLoop(p) == inv[p].idx <= Len(inv[p].sorted_calls)

InFlight(p) == inv[p].pc \notin {"idle", "done", "raised", "denied"}

\* The for loop is at a call it has not tried to send yet.
AtNewRecord(p) ==
    /\ inv[p].pc = "loop"
    /\ InLoop(p)
    /\ inv[p].found_last_call

\* The failed send attempts of the call being handled, kept while another
\* attempt is still to come: what was sent and how the channel answered (a
\* rate limit with its retry-after, or any other failure).
Attempt(p, kind, o) ==
    Append(IF inv[p].pc = "loop" THEN <<>> ELSE inv[p].attempts,
           [kind |-> kind,
            res |-> IF o.kind = "rate" THEN "rate" ELSE "fail",
            n |-> o.n])

\* The calls this invocation has tried to send, once the attempt being made
\* is counted.
Started(p) ==
    IF inv[p].pc = "loop" THEN Append(inv[p].started, Cur(p).uuid)
    ELSE inv[p].started

\* The channel after one more message about the call being handled.
Delivered(p) ==
    [sentCount EXCEPT ![Cur(p).uuid] = IF @ < 2 THEN @ + 1 ELSE @]

\* The answers the channel may still give: a failure only while the budget
\* of failures lasts.
Answers == IF faults < MaxFaults THEN Outcomes ELSE {[kind |-> "ok", n |-> 0]}

\* The channel has accepted every send so far.
allOk == faults = 0

\* ------------------------------------------------------------ environment
\* Time passes.
Tick ==
    /\ clock < OneDay + MaxClock
    /\ clock' = clock + 1
    /\ UNCHANGED <<calls, files, inv, ctl, invNo, hist, crash>>

\* The provider records a finished call; its start_stamp is the present or
\* earlier (a call is recorded when it ends).
NewCall ==
    /\ Len(calls) < MaxCalls
    /\ \E d \in 0..MaxLate :
          calls' = Append(calls, [uuid |-> Len(calls) + 1,
                                  start_stamp |-> clock - d])
    /\ UNCHANGED <<clock, files, inv, ctl, invNo, hist, crash>>

\* ------------------------------------------------------ process_new_calls
\* Entry: api = OnlinePBXAPI(); if not api.authenticate(): return 0
Begin(p) ==
    /\ inv[p].pc = "idle"
    /\ invNo < MaxInv
    /\ invNo' = invNo + 1
    /\ \E ok \in BOOLEAN :
          inv' = [inv EXCEPT ![p] =
                    [IdleLocals EXCEPT
                        !.pc = IF AuthFailed(ok) THEN "done" ELSE "read",
                        !.authed = ok,
                        !.no = invNo + 1]]

\* last_check = get_last_check_time(); current_time = int(time.time());
\* last_uuid = get_last_call_uuid()
ReadCheckpoint(p) ==
    /\ inv[p].pc = "read"
    /\ LET g == GetLastCheckTime(timeFile, clock) IN
          /\ timeFile' = g.file
          /\ inv' = [inv EXCEPT ![p] =
                       [@ EXCEPT !.pc = "fetch", !.last_check = g.value,
                                 !.current_time = clock,
                                 !.last_uuid = GetLastCallUuid(uuidFile)]]
    /\ UNCHANGED <<env, uuidFile, ctl, invNo, hist, crash>>

\* The lower end of the window as the value to save for an empty window.
WindowStart(p) == inv[p].last_check

\* save_last_check_time(current_time) of the empty window: the time read at
\* the start of the invocation.
WindowEnd(p) == inv[p].current_time

\* call_details = api.get_call_details(last_check, current_time); None (an
\* error) and [] both take the "if not call_details" branch, which saves
\* current_time and returns 0.  Otherwise the archive is asked for, the calls
\* are sorted and the loop starts; what the archive request yields is left
\* open here and settled by the step Archive of SpecArchive.
Fetch(p) ==
    /\ inv[p].pc = "fetch"
    /\ \E ok \in BOOLEAN :
          LET res == GetCallDetails(ok, Window(calls, inv[p].last_check,
                                               inv[p].current_time))
              got == IF res.error THEN "error"
                     ELSE IF res.list = <<>> THEN "empty" ELSE "list"
          IN  IF NotCallDetails(res)
              THEN /\ timeFile' = WindowEnd(p)
                   /\ inv' = [inv EXCEPT ![p] =
                                [@ EXCEPT !.pc = "done", !.ret = 0,
                                          !.fetched = got]]
              ELSE /\ inv' = [inv EXCEPT ![p] =
                                [@ EXCEPT !.pc = "loop",
                                          !.fetched = got,
                                          !.call_details = res.list,
                                          !.sorted_calls =
                                              SortedCalls(res.list),
                                          !.processed_count = 0,
                                          !.found_last_call =
                                              InitialFound(inv[p].last_uuid),
                                          !.idx = 1]]
                   /\ UNCHANGED timeFile
    /\ UNCHANGED <<env, uuidFile, ctl, invNo, hist, crash>>

\* The resume scan: skip calls until the last processed uuid is seen.
SkipRecord(p) ==
    /\ inv[p].pc = "loop"
    /\ InLoop(p)
    /\ ~inv[p].found_last_call
    /\ inv' = [inv EXCEPT ![p] =
                 [@ EXCEPT !.found_last_call =
                               MatchesLast(Cur(p).uuid, inv[p].last_uuid),
                           !.idx = @ + 1]]
    /\ UNCHANGED <<env, files, ctl, invNo, hist, crash>>

\* The message is formatted, the extracted archive holds a file for the call
\* and bot.send_audio(...) is called; any exception of it is swallowed by
\* "except Exception as audio_error" and the text message follows at once.
SendAudio(p) ==
    /\ AtNewRecord(p)
    /\ \E o \in Answers :
          IF o.kind = "ok"
          THEN /\ sentCount' = Delivered(p)
               /\ inv' = [inv EXCEPT ![p] =
                            [@ EXCEPT !.pc = "save_time",
                                      !.started = Started(p),
                                      !.attempts = <<>>,
                                      !.slept = 0,
                                      !.sent_audio = TRUE,
                                      !.message = MessageOf(Cur(p)),
                                      !.processed_count = @ + 1,
                                      !.sent = @ \cup {Cur(p).uuid}]]
               /\ UNCHANGED <<degraded, faults>>
          ELSE /\ faults' = faults + 1
               /\ inv' = [inv EXCEPT ![p] =
                            [@ EXCEPT !.pc = "send_text",
                                      !.started = Started(p),
                                      !.message = MessageOf(Cur(p)),
                                      !.attempts = Attempt(p, "audio", o),
                                      !.slept = 0]]
               /\ UNCHANGED <<sentCount, degraded>>
    /\ UNCHANGED <<env, files, ctl, invNo, crash>>

\* A text send that is made again after any failure.
TextAgain(o) == IF o.kind = "ok" THEN "save_time" ELSE "send_text"

\* Where the answer to the text send of the main path leads: on to the
\* saves, into the rate-limit branch, out of the function by the exception of
\* int(...), or into a fallback.
AfterText(o) ==
    CASE o.kind = "ok" -> "save_time"
      [] o.kind = "rate" -> "retry"
      [] o.kind = "ratebad" -> "raised"
      [] OTHER -> "fallback"

\* bot.send_message(...) of the main path, for a call without a sendable
\* audio file or after the audio failed, and where its exception lands: the
\* rate-limit branch with its time.sleep(retry_time + 1), the exception
\* raised by int(...split(...)[1]) inside the handler (it leaves
\* process_new_calls), or a fallback.
SendText(p) ==
    /\ AtNewRecord(p) \/ inv[p].pc = "send_text"
    /\ \E o \in Answers :
          /\ inv' = [inv EXCEPT ![p] =
                [@ EXCEPT !.started = Started(p),
                          !.message = IF inv[p].pc = "loop"
                                      THEN MessageOf(Cur(p))
                                      ELSE inv[p].message,
                          !.attempts = IF o.kind \in {"ok", "ratebad"}
                                       THEN <<>> ELSE Attempt(p, "text", o),
                          !.slept = IF o.kind = "rate"
                                    THEN o.n + RateMargin ELSE 0,
                          !.processed_count =
                              IF o.kind = "ok" THEN @ + 1 ELSE @,
                          !.sent = IF o.kind = "ok"
                                   THEN @ \cup {Cur(p).uuid} ELSE @,
                          !.retry_time = IF o.kind = "rate" THEN o.n ELSE 0,
                          !.pc = AfterText(o)]]
          /\ sentCount' = IF o.kind = "ok" THEN Delivered(p) ELSE sentCount
          /\ faults' = IF o.kind = "ok" THEN faults ELSE faults + 1
    /\ UNCHANGED <<env, files, ctl, invNo, degraded, crash>>

\* A text send inside an exception handler: delivered, it counts the call and
\* goes on to save the uuid alone; failed, the error is logged and the loop
\* goes to the next call.
HandlerSend(p) ==
    \E o \in Answers :
       IF o.kind = "ok"
       THEN /\ sentCount' = Delivered(p)
            /\ inv' = [inv EXCEPT ![p] =
                         [@ EXCEPT !.pc = "save_uuid_only",
                                   !.attempts = <<>>, !.slept = 0,
                                   !.retry_time = 0,
                                   !.processed_count = @ + 1,
                                   !.sent = @ \cup {Cur(p).uuid}]]
            /\ UNCHANGED <<degraded, faults>>
       ELSE /\ faults' = faults + 1
            /\ degraded' = degraded \cup {Cur(p).uuid}
            /\ inv' = [inv EXCEPT ![p] =
                         [@ EXCEPT !.pc = "loop", !.idx = @ + 1,
                                   !.attempts = <<>>, !.slept = 0,
                                   !.retry_time = 0]]
            /\ UNCHANGED sentCount

\* The retry after the rate-limit wait.
Retry(p) ==
    /\ inv[p].pc = "retry"
    /\ HandlerSend(p)
    /\ UNCHANGED <<env, files, ctl, invNo, crash>>

\* The fallback of "Telegram API error" and of "except Exception".
Fallback(p) ==
    /\ inv[p].pc = "fallback"
    /\ HandlerSend(p)
    /\ UNCHANGED <<env, files, ctl, invNo, crash>>

\* save_last_check_time(call_time); the local sent, set by the audio send
\* and read by "if not sent", is not read again
SaveTime(p) ==
    /\ inv[p].pc = "save_time"
    /\ timeFile' = Cur(p).start_stamp
    /\ inv' = [inv EXCEPT ![p] = [@ EXCEPT !.pc = "save_uuid",
                                          !.sent_audio = FALSE]]
    /\ UNCHANGED <<env, uuidFile, ctl, invNo, hist, crash>>

\* save_last_call_uuid(uuid) of the main path; time.sleep(1); the next call
SaveUuid(p) ==
    /\ inv[p].pc = "save_uuid"
    /\ uuidFile' = Cur(p).uuid
    /\ inv' = [inv EXCEPT ![p] = [@ EXCEPT !.pc = "loop", !.idx = @ + 1,
                                          !.slept = SendDelay]]
    /\ UNCHANGED <<env, timeFile, ctl, invNo, hist, crash>>

\* save_last_call_uuid(uuid) of the handlers; the next call
SaveUuidOnly(p) ==
    /\ inv[p].pc = "save_uuid_only"
    /\ uuidFile' = Cur(p).uuid
    /\ inv' = [inv EXCEPT ![p] = [@ EXCEPT !.pc = "loop", !.idx = @ + 1]]
    /\ UNCHANGED <<env, timeFile, ctl, invNo, hist, crash>>

\* After the loop: shutil.rmtree(temp_dir); return processed_count
Cleanup(p) ==
    /\ inv[p].pc = "loop"
    /\ ~InLoop(p)
    /\ inv' = [inv EXCEPT ![p] =
                 [@ EXCEPT !.pc = "done", !.ret = inv[p].processed_count,
                           !.slept = 0]]
    /\ UNCHANGED <<env, files, ctl, invNo, hist, crash>>

\* One step of the invocation run by process p.
Step(p) ==
    \/ ReadCheckpoint(p)
    \/ Fetch(p)
    \/ SkipRecord(p)
    \/ SendAudio(p)
    \/ SendText(p)
    \/ Retry(p)
    \/ Fallback(p)
    \/ SaveTime(p)
    \/ SaveUuid(p)
    \/ SaveUuidOnly(p)
    \/ Cleanup(p)

\* ------------------------------------------- non-overlapping invocations
\* A trigger calls process_new_calls while no other invocation is running.
SeqInvoke ==
    /\ \A q \in Procs : inv[q].pc = "idle"
    /\ Begin(Main)
    /\ UNCHANGED <<env, files, ctl, hist, crash>>

\* The call returns, or its exception reaches the caller.
SeqReturn ==
    /\ inv[Main].pc \in {"done", "raised"}
    /\ inv' = [inv EXCEPT ![Main] = IdleLocals]
    /\ UNCHANGED <<env, files, ctl, invNo, hist, crash>>

Next ==
    \/ Tick
    \/ NewCall
    \/ SeqInvoke
    \/ Step(Main)
    \/ SeqReturn

Spec == Init /\ [][Next]_vars

\* ------------------------------------------------------------------ crash
\* The program counters at which a call of the window is being handled.
RecordPcs ==
    {"send_text", "retry", "fallback", "save_time", "save_uuid",
     "save_uuid_only"}

\* The OS process dies while p runs process_new_calls: every local is lost
\* and the files stay as they are.  save_last_check_time and
\* save_last_call_uuid write with open(path, 'w'), which truncates the file
\* before f.write: a death inside one of them can leave that file empty.
Crash(p) ==
    /\ InFlight(p)
    /\ crash.n < MaxCrash
    /\ \E cut \in BOOLEAN :
          /\ timeFile' = IF cut /\ inv[p].pc = "save_time"
                         THEN Torn ELSE timeFile
          /\ uuidFile' = IF cut /\ inv[p].pc \in {"save_uuid", "save_uuid_only"}
                         THEN 0 ELSE uuidFile
    /\ crash' = [n |-> crash.n + 1, no |-> inv[p].no,
                 uuid |-> IF inv[p].pc \in RecordPcs THEN Cur(p).uuid ELSE 0]
    /\ inv' = [q \in Procs |-> IdleLocals]
    /\ UNCHANGED <<env, ctl, invNo, hist>>

NextCrash ==
    \/ Next
    \/ Crash(Main)

SpecCrash == Init /\ [][NextCrash]_vars

\* ------------------------------------------------- main.py and the commands
\* main.py: process_new_calls(bot) before anything else.
MainStartup ==
    /\ mode = "startup"
    /\ Begin(Main)
    /\ mode' = "startup_run"
    /\ UNCHANGED <<env, files, user_locks, owner, hist, crash>>

\* setup_webhook() and app.run(...): the server takes updates, or an
\* exception sends the main thread to the polling loop.
MainServe ==
    /\ mode = "startup_run"
    /\ inv[Main].pc = "done"
    /\ inv' = [inv EXCEPT ![Main] = IdleLocals]
    /\ \E ok \in BOOLEAN : mode' = IF ok THEN "serving" ELSE "polling"
    /\ UNCHANGED <<env, files, user_locks, owner, invNo, hist, crash>>

\* An exception of the first process_new_calls reaches the outer handler
\* ("Critical error in main function") and the main thread ends.
MainAbort ==
    /\ mode = "startup_run"
    /\ inv[Main].pc = "raised"
    /\ inv' = [inv EXCEPT ![Main] = IdleLocals]
    /\ mode' = "exited"
    /\ UNCHANGED <<env, files, user_locks, owner, invNo, hist, crash>>

\* app.run raises while serving: "Falling back to polling mode".  Handler
\* threads already started go on running.
ServerFails ==
    /\ mode = "serving"
    /\ mode' = "polling"
    /\ UNCHANGED <<env, files, inv, user_locks, owner, invNo, hist, crash>>

\* while True: process_new_calls(bot) -- called without touching user_locks.
PollRun ==
    /\ mode = "polling"
    /\ Begin(Main)
    /\ mode' = "poll_run"
    /\ UNCHANGED <<env, files, user_locks, owner, hist, crash>>

\* The call returns or its exception is logged ("Error in main loop");
\* time.sleep(300) and round again.
PollEnd ==
    /\ mode = "poll_run"
    /\ inv[Main].pc \in {"done", "raised"}
    /\ inv' = [inv EXCEPT ![Main] = IdleLocals]
    /\ mode' = "polling"
    /\ UNCHANGED <<env, files, user_locks, owner, invNo, hist, crash>>

\* prevent_concurrent_requests on entry: the user's flag in user_locks is
\* taken, or the command is refused at once.
TryAcquire(u) == ~user_locks[u]

\* prevent_concurrent_requests on exit, whatever way the handler ends.
Release(u) == [user_locks EXCEPT ![u] = FALSE]

\* The "check" command of user u handled by thread w, the first free thread
\* of the pool: check_command under prevent_concurrent_requests.
CheckCommand(w, u) ==
    /\ mode = "serving"
    /\ inv[w].pc = "idle"
    /\ w = "w2" => inv["w1"].pc # "idle"
    /\ owner' = [owner EXCEPT ![w] = u]
    /\ IF TryAcquire(u)
       THEN /\ user_locks' = [user_locks EXCEPT ![u] = TRUE]
            /\ Begin(w)
       ELSE /\ inv' = [inv EXCEPT ![w] = [IdleLocals EXCEPT !.pc = "denied"]]
            /\ UNCHANGED <<user_locks, invNo>>
    /\ UNCHANGED <<env, files, mode, hist, crash>>

\* check_command returns (or its exception leaves it) and the decorator
\* releases; a refused command just returns.
CheckEnd(w) ==
    /\ inv[w].pc \in {"done", "raised", "denied"}
    /\ user_locks' = IF inv[w].pc = "denied" THEN user_locks
                     ELSE Release(owner[w])
    /\ inv' = [inv EXCEPT ![w] = IdleLocals]
    /\ UNCHANGED <<env, files, mode, owner, invNo, hist, crash>>

\* cancel_command / cancel_callback: user_locks[user_id] = False, while the
\* user's operation may still be running.
CancelCommand(u) ==
    /\ mode = "serving"
    /\ user_locks[u]
    /\ user_locks' = [user_locks EXCEPT ![u] = FALSE]
    /\ UNCHANGED <<env, files, inv, mode, owner, invNo, hist, crash>>

NextMain ==
    \/ Tick
    \/ NewCall
    \/ MainStartup
    \/ MainServe
    \/ MainAbort
    \/ ServerFails
    \/ PollRun
    \/ PollEnd
    \/ Step(Main)
    \/ \E w \in Workers : \E u \in Users : CheckCommand(w, u)
    \/ \E w \in Workers : Step(w)
    \/ \E w \in Workers : CheckEnd(w)
    \/ \E u \in Users : CancelCommand(u)

SpecMain == Init /\ [][NextMain]_vars

\* ------------------------------------------------- the unattended trigger
\* What the main thread does by itself: the first run, the choice of
\* transport and the polling loop.
MainThread ==
    \/ MainStartup
    \/ MainServe
    \/ MainAbort
    \/ PollRun
    \/ PollEnd
    \/ Step(Main)

NextTrigger ==
    \/ Tick
    \/ NewCall
    \/ ServerFails
    \/ MainThread

\* The process with no user sending a command.  The main thread keeps
\* running: every collaborator call returns and time.sleep(300) ends.  That
\* the web server fails is not taken for granted.
SpecTrigger == Init /\ [][NextTrigger]_vars /\ WF_vars(MainThread)

\* ---------------------------------------------------------- the archive
\* An audio file of the extracted archive: the call ids that are substrings
\* of its name, its size (0: empty) and the call it records, whose id its
\* name contains (0 for a file that names no call of the list).
AudioFile ==
    {[ids |-> x[1], size |-> x[2], call |-> x[3]] :
        x \in {y \in (SUBSET Uuids) \X (0..1) \X (0..MaxCalls) :
                  IF y[1] = {} THEN y[3] = 0 ELSE y[3] \in y[1]}}

\* The audio files a walk of the extracted archive can find, in the order of
\* the walk.
Archives ==
    UNION {[1..n -> AudioFile] : n \in 0..MaxFiles}

\* How download_call_records and download_and_extract_audio_archive can end.
ArchiveResults == {"no_url", "download_failed", "empty", "extract_failed", "ok"}

\* A resolver that returns (None, {}) after a failure and leaves the
\* directory of mkdtemp behind.
LeavesTempDir(r, fs) ==
    IF r = "no_url"
    THEN [temp_dir |-> "none", audio_files |-> <<>>, made |-> 0, removed |-> 0]
    ELSE IF r = "ok"
    THEN [temp_dir |-> "dir", audio_files |-> fs, made |-> 1, removed |-> 0]
    ELSE [temp_dir |-> "none", audio_files |-> <<>>, made |-> 1, removed |-> 0]

\* download_url = api.download_call_records(...); temp_dir = None;
\* audio_files = {}; if download_url: temp_dir, audio_files =
\* download_and_extract_audio_archive(download_url).  Without a URL nothing
\* is created.  With one, mkdtemp makes the directory; a failed download
\* (outer except), an empty tar file and a failed extraction each rmtree it
\* and return (None, {}); otherwise the directory and the audio files found
\* by the walk are returned.
DownloadAndExtract(r, fs) ==
    IF r = "no_url"
    THEN [temp_dir |-> "none", audio_files |-> <<>>, made |-> 0, removed |-> 0]
    ELSE IF r = "ok"
    THEN [temp_dir |-> "dir", audio_files |-> fs, made |-> 1, removed |-> 0]
    ELSE [temp_dir |-> "none", audio_files |-> <<>>, made |-> 1, removed |-> 1]

\* The archive step of the invocation has run.
Resolved(p) == inv[p].temp_dir # "unset"

\* The directory made for the archive is on disk.
OnDisk(p) == inv[p].made > inv[p].removed

\* A lookup that finds no file.
NoMatch(fs, u) == 0

\* A lookup that takes the last file whose name contains the id.
LastMatch(fs, u) ==
    IF \E i \in 1..Len(fs) : u \in fs[i].ids
    THEN CHOOSE i \in 1..Len(fs) :
            u \in fs[i].ids /\ \A j \in (i + 1)..Len(fs) : u \notin fs[j].ids
    ELSE 0

\* for filename, filepath in audio_files.items(): if uuid in filename and
\* os.path.isfile(filepath): audio_path = filepath; break.  The position of
\* the first file whose name contains the id, 0 when there is none.
FirstMatch(fs, u) ==
    IF \E i \in 1..Len(fs) : u \in fs[i].ids
    THEN CHOOSE i \in 1..Len(fs) :
            u \in fs[i].ids /\ \A j \in 1..(i - 1) : u \notin fs[j].ids
    ELSE 0

\* audio_path of the call at hand: looked up only if temp_dir is set and
\* exists.
AudioPath(p) ==
    IF inv[p].temp_dir = "dir" /\ OnDisk(p)
    THEN FirstMatch(inv[p].audio_files, Cur(p).uuid)
    ELSE 0

\* if audio_path and os.path.exists(audio_path) and
\* os.path.getsize(audio_path) > 0
CanSendAudio(p) ==
    /\ AudioPath(p) # 0
    /\ inv[p].audio_files[AudioPath(p)].size > 0

\* The archive is asked for and resolved, once a non-empty list was fetched.
Archive(p) ==
    /\ inv[p].pc = "loop"
    /\ ~Resolved(p)
    /\ \E r \in ArchiveResults :
       \E fs \in IF r = "ok" THEN Archives ELSE {<<>>} :
          LET d == DownloadAndExtract(r, fs) IN
             inv' = [inv EXCEPT ![p] =
                       [@ EXCEPT !.archive = r,
                                 !.temp_dir = d.temp_dir,
                                 !.audio_files = d.audio_files,
                                 !.made = d.made,
                                 !.removed = d.removed]]
    /\ UNCHANGED <<env, files, ctl, invNo, hist, crash>>

ArchSkipRecord(p) == Resolved(p) /\ SkipRecord(p)

\* The audio is sent when the lookup found a non-empty file.
ArchSendAudio(p) ==
    /\ Resolved(p)
    /\ AtNewRecord(p)
    /\ CanSendAudio(p)
    /\ SendAudio(p)

\* The text is sent when no audio was sent for the call.
ArchSendText(p) ==
    /\ Resolved(p)
    /\ inv[p].pc = "send_text" \/ (AtNewRecord(p) /\ ~CanSendAudio(p))
    /\ SendText(p)

\* if temp_dir and os.path.exists(temp_dir): shutil.rmtree(temp_dir)
RemoveTempDir(p) ==
    /\ inv[p].pc = "loop"
    /\ ~InLoop(p)
    /\ inv[p].temp_dir = "dir"
    /\ OnDisk(p)
    /\ inv' = [inv EXCEPT ![p] = [@ EXCEPT !.removed = @ + 1]]
    /\ UNCHANGED <<env, files, ctl, invNo, hist, crash>>

\* return processed_count, after the cleanup
ArchCleanup(p) ==
    /\ Resolved(p)
    /\ ~(inv[p].temp_dir = "dir" /\ OnDisk(p))
    /\ Cleanup(p)

ArchStep(p) ==
    \/ ReadCheckpoint(p)
    \/ Fetch(p)
    \/ Archive(p)
    \/ ArchSkipRecord(p)
    \/ ArchSendAudio(p)
    \/ ArchSendText(p)
    \/ Retry(p)
    \/ Fallback(p)
    \/ SaveTime(p)
    \/ SaveUuid(p)
    \/ SaveUuidOnly(p)
    \/ RemoveTempDir(p)
    \/ ArchCleanup(p)

NextArchive ==
    \/ Tick
    \/ NewCall
    \/ SeqInvoke
    \/ ArchStep(Main)
    \/ SeqReturn

\* Non-overlapping invocations with the archive of each resolved.
SpecArchive == Init /\ [][NextArchive]_vars

\* ------------------------------------------------- records that do not format
\* The provider records a finished call with a null hangup_cause.
NewCallNull ==
    /\ Len(calls) < MaxCalls
    /\ \E d \in 0..MaxLate :
          calls' = Append(calls, [uuid |-> Len(calls) + 1,
                                  start_stamp |-> clock - d,
                                  hangup_cause |-> "null"])
    /\ UNCHANGED <<clock, files, inv, ctl, invNo, hist, crash>>

\* The main path with a record that formats.
FmtSendAudio(p) ==
    /\ AtNewRecord(p)
    /\ ~FormatRaises(Cur(p))
    /\ SendAudio(p)

FmtSendText(p) ==
    /\ inv[p].pc = "send_text" \/ (AtNewRecord(p) /\ ~FormatRaises(Cur(p)))
    /\ SendText(p)

\* format_call_details(call) raises: "except Exception as e" is entered
\* with message as the last assignment left it.
FormatFails(p) ==
    /\ AtNewRecord(p)
    /\ FormatRaises(Cur(p))
    /\ inv' = [inv EXCEPT ![p] =
                 [@ EXCEPT !.pc = "fallback", !.started = Started(p),
                           !.attempts = <<>>, !.slept = 0]]
    /\ UNCHANGED <<env, files, ctl, invNo, hist, crash>>

\* The fallback send with message bound by an earlier iteration or by this
\* one.
FmtFallback(p) ==
    /\ inv[p].message # 0
    /\ Fallback(p)

\* The fallback of the first call handled, message never assigned: building
\* the text raises UnboundLocalError inside the handler's own try, which is
\* logged; nothing is sent.
UnboundFallback(p) ==
    /\ inv[p].pc = "fallback"
    /\ inv[p].message = 0
    /\ degraded' = degraded \cup {Cur(p).uuid}
    /\ inv' = [inv EXCEPT ![p] = [@ EXCEPT !.pc = "loop", !.idx = @ + 1]]
    /\ UNCHANGED <<env, files, ctl, invNo, sentCount, faults, crash>>

FmtStep(p) ==
    \/ ReadCheckpoint(p)
    \/ Fetch(p)
    \/ SkipRecord(p)
    \/ FmtSendAudio(p)
    \/ FmtSendText(p)
    \/ FormatFails(p)
    \/ Retry(p)
    \/ FmtFallback(p)
    \/ UnboundFallback(p)
    \/ SaveTime(p)
    \/ SaveUuid(p)
    \/ SaveUuidOnly(p)
    \/ Cleanup(p)

NextFormat ==
    \/ Tick
    \/ NewCall
    \/ NewCallNull
    \/ SeqInvoke
    \/ FmtStep(Main)
    \/ SeqReturn

\* Non-overlapping invocations over records some of which do not format.
SpecFormat == Init /\ [][NextFormat]_vars

\* ------------------------------------------------------ format_call_details
\* The characters a field of a call record is made of: those HTML gives a
\* meaning to, those the formatter escapes, and an ordinary one.
Chars == {"<", ">", "&", "_", "*", "7"}

\* What parse_mode='HTML' gives a meaning to.
Markup == {"<", ">", "&"}

FieldStrings == UNION {[1..n -> Chars] : n \in 0..MaxField}

\* str(...).replace('_', '\\_').replace('*', '\\*'): a backslash is put
\* before every underscore and every asterisk; every other character is
\* kept.
RECURSIVE Escape(_)
Escape(str) ==
    IF str = <<>> THEN <<>>
    ELSE (IF Head(str) \in {"_", "*"} THEN <<"\\", Head(str)>>
          ELSE <<Head(str)>>) \o Escape(Tail(str))

\* A piece of the f-string template.
Lit(str) == <<[src |-> "template", text |-> str]>>

\* The characters of a field, as they stand in the message.
FromField(str) == [i \in 1..Len(str) |-> [src |-> "field", text |-> str[i]]]

\* The lines of the message that come from caller_id_number,
\* destination_number and gateway.
FormatCallDetails(c) ==
    Lit("<b>From:</b> ") \o FromField(Escape(c.caller_id_number))
    \o Lit("\n<b>To:</b> ") \o FromField(Escape(c.destination_number))
    \o Lit("\n<b>Gateway:</b> ") \o FromField(Escape(c.gateway))

\* One call record with any caller, destination and gateway.
InitMarkup ==
    /\ clock = OneDay
    /\ \E a, b, g \in FieldStrings :
          calls = <<[uuid |-> 1, start_stamp |-> OneDay,
                     caller_id_number |-> a, destination_number |-> b,
                     gateway |-> g]>>
    /\ timeFile = Absent
    /\ uuidFile = Absent
    /\ inv = [p \in Procs |-> IdleLocals]
    /\ mode = "startup"
    /\ user_locks = [u \in Users |-> FALSE]
    /\ owner = [w \in Workers |-> "u1"]
    /\ invNo = 0
    /\ sentCount = [u \in Uuids |-> 0]
    /\ degraded = {}
    /\ faults = 0
    /\ crash = NoCrash

\* message = format_call_details(call)
FormatRecord ==
    /\ inv[Main].pc = "idle"
    /\ inv' = [inv EXCEPT ![Main] =
                 [@ EXCEPT !.pc = "done",
                           !.message = FormatCallDetails(calls[1])]]
    /\ UNCHANGED <<env, files, ctl, invNo, hist, crash>>

\* The formatter applied to one record.
SpecMarkup == InitMarkup /\ [][FormatRecord]_vars

\* ------------------------------------------------------- get_period_calls
\* The commands with a fixed window.
PeriodCommands == {"today", "yesterday", "week", "month"}

\* today_calls_command and month_calls_command pass status_msg as a sixth
\* argument to get_period_calls, which takes five: the call raises TypeError
\* before the body runs.
ExtraArgument(cmd) == cmd \in {"today", "month"}

\* Midnight of the day of now.
DayStart(now) == now - (now % OneDay)

\* today.weekday(): Monday is 0; the first day of the epoch was a Thursday.
Weekday(now) == ((now \div OneDay) + 3) % 7

\* The (start, end) the command computes from datetime.now(); the month is
\* the first month of the epoch, which holds every time of the model.
PeriodWindow(cmd, now) ==
    CASE cmd = "today" ->
            [from |-> DayStart(now), to |-> DayStart(now) + OneDay - 1]
      [] cmd = "yesterday" ->
            [from |-> DayStart(now) - OneDay, to |-> DayStart(now) - 1]
      [] cmd = "week" ->
            [from |-> DayStart(now) - Weekday(now) * OneDay, to |-> now]
      [] OTHER ->
            [from |-> 0, to |-> 31 * OneDay - 1]

\* The invocation of p is one of get_period_calls.
IsPeriod(p) == inv[p].period # ""

\* The for loop of get_period_calls is at a call.
AtPeriodRecord(p) == inv[p].pc = "p_loop" /\ InLoop(p)

\* The failed attempts of the call at hand, with the one being made.
PeriodAttempt(p, kind, o) ==
    Append(IF inv[p].pc = "p_loop" THEN <<>> ELSE inv[p].attempts,
           [kind |-> kind,
            res |-> IF o.kind = "rate" THEN "rate" ELSE "fail",
            n |-> o.n])

\* The calls the invocation has tried to send, with the one at hand.
PeriodStarted(p) ==
    IF inv[p].pc = "p_loop" THEN Append(inv[p].started, Cur(p).uuid)
    ELSE inv[p].started

\* A command with a fixed window calls get_period_calls while no other
\* invocation is running: the TypeError of the call, or api.authenticate()
\* and "return 0" when it fails.
PeriodInvoke(cmd) ==
    /\ \A q \in Procs : inv[q].pc = "idle"
    /\ invNo < MaxInv
    /\ invNo' = invNo + 1
    /\ IF ExtraArgument(cmd)
       THEN inv' = [inv EXCEPT ![Main] =
                      [IdleLocals EXCEPT !.pc = "raised", !.period = cmd,
                                         !.no = invNo + 1]]
       ELSE \E ok \in BOOLEAN :
               inv' = [inv EXCEPT ![Main] =
                         [IdleLocals EXCEPT
                             !.pc = IF AuthFailed(ok) THEN "done"
                                    ELSE "p_fetch",
                             !.period = cmd,
                             !.authed = ok,
                             !.last_check = PeriodWindow(cmd, clock).from,
                             !.current_time = PeriodWindow(cmd, clock).to,
                             !.no = invNo + 1]]
    /\ UNCHANGED <<env, files, ctl, hist, crash>>

\* A fetch of the window that saves its end when no call came back.
FetchAndSave(p) ==
    /\ inv[p].pc = "p_fetch"
    /\ timeFile' = inv[p].current_time
    /\ inv' = [inv EXCEPT ![p] = [@ EXCEPT !.pc = "done", !.ret = 0]]
    /\ UNCHANGED <<env, uuidFile, ctl, invNo, hist, crash>>

\* call_details = api.get_call_details(start_time, end_time); None and []
\* return 0; otherwise the archive is asked for and the loop starts at the
\* first call of sorted(call_details, ...).  last_check and current_time
\* hold start_time and end_time.
PeriodFetch(p) ==
    /\ inv[p].pc = "p_fetch"
    /\ \E ok \in BOOLEAN :
          LET res == GetCallDetails(ok, Window(calls, inv[p].last_check,
                                               inv[p].current_time))
              got == IF res.error THEN "error"
                     ELSE IF res.list = <<>> THEN "empty" ELSE "list"
          IN  IF NotCallDetails(res)
              THEN inv' = [inv EXCEPT ![p] =
                             [@ EXCEPT !.pc = "done", !.ret = 0,
                                       !.fetched = got]]
              ELSE inv' = [inv EXCEPT ![p] =
                             [@ EXCEPT !.pc = "p_loop",
                                       !.fetched = got,
                                       !.call_details = res.list,
                                       !.sorted_calls = SortedCalls(res.list),
                                       !.processed_count = 0,
                                       !.idx = 1]]
    /\ UNCHANGED <<env, files, ctl, invNo, hist, crash>>

\* bot.send_audio(...) of get_period_calls: delivered, sent_count += 1,
\* time.sleep(1) and the next call; its exception is swallowed and the text
\* follows.
PeriodSendAudio(p) ==
    /\ AtPeriodRecord(p)
    /\ \E o \in Answers :
          IF o.kind = "ok"
          THEN /\ sentCount' = Delivered(p)
               /\ inv' = [inv EXCEPT ![p] =
                            [@ EXCEPT !.pc = "p_loop", !.idx = @ + 1,
                                      !.started = PeriodStarted(p),
                                      !.attempts = <<>>,
                                      !.slept = SendDelay,
                                      !.message = MessageOf(Cur(p)),
                                      !.processed_count = @ + 1,
                                      !.sent = @ \cup {Cur(p).uuid}]]
               /\ UNCHANGED <<degraded, faults>>
          ELSE /\ faults' = faults + 1
               /\ inv' = [inv EXCEPT ![p] =
                            [@ EXCEPT !.pc = "p_send_text",
                                      !.started = PeriodStarted(p),
                                      !.message = MessageOf(Cur(p)),
                                      !.attempts = PeriodAttempt(p, "audio", o),
                                      !.slept = 0]]
               /\ UNCHANGED <<sentCount, degraded>>
    /\ UNCHANGED <<env, files, ctl, invNo, crash>>

\* Where the answer to the text send of get_period_calls leads: to the next
\* call, into the rate-limit branch, out of the function by the exception
\* of int(...), or into a fallback.
AfterPeriodText(o) ==
    CASE o.kind = "ok" -> "p_loop"
      [] o.kind = "rate" -> "p_retry"
      [] o.kind = "ratebad" -> "raised"
      [] OTHER -> "p_fallback"

\* bot.send_message(...) of the main path of get_period_calls.
PeriodSendText(p) ==
    /\ AtPeriodRecord(p) \/ inv[p].pc = "p_send_text"
    /\ \E o \in Answers :
          /\ inv' = [inv EXCEPT ![p] =
                [@ EXCEPT !.started = PeriodStarted(p),
                          !.message = MessageOf(Cur(p)),
                          !.attempts = IF o.kind \in {"ok", "ratebad"}
                                       THEN <<>>
                                       ELSE PeriodAttempt(p, "text", o),
                          !.slept = CASE o.kind = "rate" -> o.n + RateMargin
                                      [] o.kind = "ok" -> SendDelay
                                      [] OTHER -> 0,
                          !.processed_count =
                              IF o.kind = "ok" THEN @ + 1 ELSE @,
                          !.sent = IF o.kind = "ok"
                                   THEN @ \cup {Cur(p).uuid} ELSE @,
                          !.retry_time = IF o.kind = "rate" THEN o.n ELSE 0,
                          !.idx = IF o.kind = "ok" THEN @ + 1 ELSE @,
                          !.pc = AfterPeriodText(o)]]
          /\ sentCount' = IF o.kind = "ok" THEN Delivered(p) ELSE sentCount
          /\ faults' = IF o.kind = "ok" THEN faults ELSE faults + 1
    /\ UNCHANGED <<env, files, ctl, invNo, degraded, crash>>

\* The text send of the rate-limit branch and of the fallbacks of
\* get_period_calls: delivered, sent_count += 1; failed, the error is
\* logged; either way the next call.
PeriodHandlerSend(p) ==
    /\ inv[p].pc \in {"p_retry", "p_fallback"}
    /\ \E o \in Answers :
          /\ inv' = [inv EXCEPT ![p] =
                       [@ EXCEPT !.pc = "p_loop", !.idx = @ + 1,
                                 !.attempts = <<>>, !.slept = 0,
                                 !.retry_time = 0,
                                 !.processed_count =
                                     IF o.kind = "ok" THEN @ + 1 ELSE @,
                                 !.sent = IF o.kind = "ok"
                                          THEN @ \cup {Cur(p).uuid} ELSE @]]
          /\ sentCount' = IF o.kind = "ok" THEN Delivered(p) ELSE sentCount
          /\ faults' = IF o.kind = "ok" THEN faults ELSE faults + 1
          /\ degraded' = IF o.kind = "ok" THEN degraded
                         ELSE degraded \cup {Cur(p).uuid}
    /\ UNCHANGED <<env, files, ctl, invNo, crash>>

\* After the loop: the cleanup, "Sent N calls to the channel" and
\* return sent_count.
PeriodCleanup(p) ==
    /\ inv[p].pc = "p_loop"
    /\ ~InLoop(p)
    /\ inv' = [inv EXCEPT ![p] =
                 [@ EXCEPT !.pc = "done", !.ret = inv[p].processed_count,
                           !.slept = 0]]
    /\ UNCHANGED <<env, files, ctl, invNo, hist, crash>>

\* One step of get_period_calls run by process p.
PeriodStep(p) ==
    \/ PeriodFetch(p)
    \/ PeriodSendAudio(p)
    \/ PeriodSendText(p)
    \/ PeriodHandlerSend(p)
    \/ PeriodCleanup(p)

NextPeriod ==
    \/ Tick
    \/ NewCall
    \/ SeqInvoke
    \/ Step(Main)
    \/ \E cmd \in PeriodCommands : PeriodInvoke(cmd)
    \/ PeriodStep(Main)
    \/ SeqReturn

\* Non-overlapping invocations of process_new_calls and of get_period_calls.
SpecPeriod == Init /\ [][NextPeriod]_vars

\* ------------------------------------- get_period_calls and the archive
\* for filename, filepath in audio_files.items(): if uuid in filename and
\* os.path.isfile(filepath) and os.path.getsize(filepath) > 0:
\* audio_path = filepath; break.  The position of the first file that is
\* not empty and whose name contains the id, 0 when there is none.
FirstNonEmptyMatch(fs, u) ==
    IF \E i \in 1..Len(fs) : u \in fs[i].ids /\ fs[i].size > 0
    THEN CHOOSE i \in 1..Len(fs) :
            /\ u \in fs[i].ids /\ fs[i].size > 0
            /\ \A j \in 1..(i - 1) : ~(u \in fs[j].ids /\ fs[j].size > 0)
    ELSE 0

\* audio_path of the call at hand in get_period_calls.
PeriodAudioPath(p) ==
    IF inv[p].temp_dir = "dir" /\ OnDisk(p)
    THEN FirstNonEmptyMatch(inv[p].audio_files, Cur(p).uuid)
    ELSE 0

\* if audio_path and os.path.exists(audio_path) and
\* os.path.getsize(audio_path) > 0
PeriodCanSendAudio(p) ==
    /\ PeriodAudioPath(p) # 0
    /\ inv[p].audio_files[PeriodAudioPath(p)].size > 0

\* download_url = api.download_call_records(start_time, end_time) and
\* download_and_extract_audio_archive(download_url), before the loop.
PeriodArchive(p) ==
    /\ inv[p].pc = "p_loop"
    /\ ~Resolved(p)
    /\ \E r \in ArchiveResults :
       \E fs \in IF r = "ok" THEN Archives ELSE {<<>>} :
          LET d == DownloadAndExtract(r, fs) IN
             inv' = [inv EXCEPT ![p] =
                       [@ EXCEPT !.archive = r,
                                 !.temp_dir = d.temp_dir,
                                 !.audio_files = d.audio_files,
                                 !.made = d.made,
                                 !.removed = d.removed]]
    /\ UNCHANGED <<env, files, ctl, invNo, hist, crash>>

\* The audio is sent when the lookup found a file.
PArchSendAudio(p) ==
    /\ Resolved(p)
    /\ AtPeriodRecord(p)
    /\ PeriodCanSendAudio(p)
    /\ PeriodSendAudio(p)

\* The text is sent when no audio was sent for the call.
PArchSendText(p) ==
    /\ Resolved(p)
    /\ inv[p].pc = "p_send_text"
          \/ (AtPeriodRecord(p) /\ ~PeriodCanSendAudio(p))
    /\ PeriodSendText(p)

\* if temp_dir and os.path.exists(temp_dir): shutil.rmtree(temp_dir)
PeriodRemoveTempDir(p) ==
    /\ inv[p].pc = "p_loop"
    /\ ~InLoop(p)
    /\ inv[p].temp_dir = "dir"
    /\ OnDisk(p)
    /\ inv' = [inv EXCEPT ![p] = [@ EXCEPT !.removed = @ + 1]]
    /\ UNCHANGED <<env, files, ctl, invNo, hist, crash>>

\* return sent_count, after the cleanup
PArchCleanup(p) ==
    /\ Resolved(p)
    /\ ~(inv[p].temp_dir = "dir" /\ OnDisk(p))
    /\ PeriodCleanup(p)

PArchStep(p) ==
    \/ PeriodFetch(p)
    \/ PeriodArchive(p)
    \/ PArchSendAudio(p)
    \/ PArchSendText(p)
    \/ PeriodHandlerSend(p)
    \/ PeriodRemoveTempDir(p)
    \/ PArchCleanup(p)

NextPeriodArchive ==
    \/ Tick
    \/ NewCall
    \/ \E cmd \in PeriodCommands : PeriodInvoke(cmd)
    \/ PArchStep(Main)
    \/ SeqReturn

\* Non-overlapping invocations of get_period_calls with the archive of each
\* resolved.
SpecPeriodArchive == Init /\ [][NextPeriodArchive]_vars

\* ------------------------------------------------------------- properties
\* The for loop has finished with a call and not yet taken the next one.
Handled(p) == inv[p].pc = "loop" /\ inv[p].started # <<>>

\* The call the for loop has just finished with.
Prev(p) == inv[p].sorted_calls[inv[p].idx - 1]

IdsOf(cs) == [i \in 1..Len(cs) |-> cs[i].uuid]

Holds(cs, u) == \E i \in 1..Len(cs) : cs[i].uuid = u

FirstPos(cs, u) ==
    CHOOSE i \in 1..Len(cs) :
       cs[i].uuid = u /\ \A j \in 1..(i - 1) : cs[j].uuid # u

IsPrefix(s, t) == Len(s) <= Len(t) /\ s = SubSeq(t, 1, Len(s))

NoCallSkipped ==
    \A p \in Procs :
       (inv[p].pc = "done" /\ allOk) =>
          \A i \in 1..Len(inv[p].call_details) :
             sentCount[inv[p].call_details[i].uuid] >= 1

\* C3: when the handling of a call ends, whatever its outcome, the files hold
\* exactly that call's start_stamp and uuid.
CheckpointAfterEveryRecord ==
    \A p \in Procs :
       Handled(p) =>
          /\ timeFile = Prev(p).start_stamp
          /\ uuidFile = Prev(p).uuid

\* C4: the timestamp in LAST_CHECK_FILE never decreases, between invocations
\* and between the per-call writes of one invocation.
TimestampNeverDecreases ==
    [][timeFile # Absent => timeFile' >= timeFile]_vars

\* A later invocation has just raised the timestamp with the write for its
\* second call.
SecondWriteRaisedTimestamp ==
    \E p \in Procs :
       /\ inv[p].no >= 2
       /\ inv[p].pc = "save_uuid"
       /\ Len(inv[p].started) >= 2
       /\ timeFile > inv[p].last_check

\* C5: with a checkpoint uuid that the sorted window holds, the calls an
\* invocation handles are exactly those after the checkpoint call in the
\* stable start_stamp order, in that order: never the checkpoint call, never
\* one that sorts before it, and the same calls on every run from that
\* checkpoint and window.
ResumeIsDeterministic ==
    \A p \in Procs :
       (/\ inv[p].pc \in RecordPcs \cup {"loop", "done", "raised"}
        /\ inv[p].last_uuid # 0
        /\ Holds(inv[p].sorted_calls, inv[p].last_uuid)) =>
          LET cs == inv[p].sorted_calls
              after == SubSeq(IdsOf(cs), FirstPos(cs, inv[p].last_uuid) + 1,
                              Len(cs))
          IN  /\ IsPrefix(inv[p].started, after)
              /\ inv[p].pc = "done" => inv[p].started = after
              /\ inv[p].sent \subseteq {after[i] : i \in 1..Len(after)}

\* An invocation resumed after the first call of its window and handled the
\* rest.
ResumedPastCheckpoint ==
    \E p \in Procs :
       /\ inv[p].pc = "done"
       /\ Len(inv[p].sorted_calls) >= 2
       /\ inv[p].last_uuid = inv[p].sorted_calls[1].uuid
       /\ inv[p].started # <<>>

\* C6: with a channel that accepts every send, the invocation that follows a
\* crash delivers again at most the call that was being handled at the crash
\* (none when the crash fell between two calls, after both files were
\* written), and it leaves no call of its window undelivered.  The crash may
\* fall between the two file writes or inside one of them.
CrashRecovery ==
    \A p \in Procs :
       (crash.n > 0 /\ inv[p].no = crash.no + 1 /\ allOk) =>
          /\ \A u \in inv[p].sent :
                sentCount[u] >= 2 => u = crash.uuid
          /\ inv[p].pc = "done" =>
                \A i \in 1..Len(inv[p].call_details) :
                   sentCount[inv[p].call_details[i].uuid] >= 1

\* C7: a call whose every send failed is behind the checkpoint when its
\* handling ends, and no invocation attempts it again.
DegradedIsPassed ==
    \A p \in Procs :
       /\ (Handled(p) /\ Prev(p).uuid \in degraded) =>
             uuidFile = Prev(p).uuid
       /\ inv[p].pc \in RecordPcs => Cur(p).uuid \notin degraded

\* C8: after a rate-limit answer to any send of a call, the next attempt is
\* the text retry, it is made after at least retry-after plus the margin
\* seconds of sleep, no attempt follows it, and every delivered call is
\* counted as processed.
RateLimitRetry ==
    \A p \in Procs :
       LET a == inv[p].attempts IN
       /\ \A i \in 1..Len(a) :
             a[i].res = "rate" =>
                /\ i = Len(a)
                /\ inv[p].pc = "retry"
                /\ inv[p].slept >= a[i].n + RateMargin
       /\ inv[p].processed_count = Cardinality(inv[p].sent)

\* C9: two "check" invocations of one user are never in flight together, and
\* once every handler has returned no user's flag is left set.
MutualExclusionPerRequester ==
    /\ \A w \in Workers : \A v \in Workers \ {w} :
          (InFlight(w) /\ InFlight(v)) => owner[w] # owner[v]
    /\ (\A w \in Workers : inv[w].pc = "idle") =>
          \A u \in Users : ~user_locks[u]

\* The program counters just before a write of a checkpoint file in the loop.
WritePcs == {"save_time", "save_uuid", "save_uuid_only"}

\* C10: while an invocation of the polling loop and one of a "check" command
\* are in flight together, no call has been delivered by both, and the one
\* about to write a checkpoint file is a command handler whose user's flag is
\* set.
PollAndCheckExclusive ==
    \A w \in Workers :
       (mode = "poll_run" /\ InFlight(Main) /\ InFlight(w)) =>
          /\ inv[Main].sent \cap inv[w].sent = {}
          /\ \A p \in {Main, w} :
                inv[p].pc \in WritePcs =>
                   (p \in Workers /\ user_locks[owner[p]])

\* The cancel trigger has fired for the user of handler w while w's
\* invocation is in flight: the flag w took is clear before w has returned.
Cancelled(w) == InFlight(w) /\ ~user_locks[owner[w]]

\* C11: an invocation whose user has cancelled while it is in flight and
\* that stands between two calls starts no further call: its next step
\* leaves the loop.
CancelStopsInvocation ==
    [][\A w \in Workers :
          (Cancelled(w) /\ inv[w].pc = "loop") =>
             \/ inv'[w] = inv[w]
             \/ inv'[w].pc = "done" /\ inv'[w].started = inv[w].started]_vars

\* The invocation of p is over: it returned or an exception left it.
Ended(p) == inv[p].pc \in {"done", "raised"}

\* C17: no failure of a channel send aborts an invocation: an invocation that
\* is over has returned a count, and if it entered the loop it went through
\* every call of the sorted list.
SendFailureNeverAborts ==
    \A p \in Procs :
       Ended(p) =>
          /\ inv[p].pc = "done"
          /\ inv[p].idx > Len(inv[p].sorted_calls) \/ inv[p].sorted_calls = <<>>

\* C18: the count an invocation returns is the number of calls it handled,
\* delivered or not, the calls skipped by the resume scan left out.
ReturnCountsHandled ==
    \A p \in Procs :
       inv[p].pc = "done" => inv[p].ret = Len(inv[p].started)

\* The record of call u in the list the provider returned to p.
Fetched(p, u) == inv[p].call_details[FirstPos(inv[p].call_details, u)]

\* C15: within one invocation the calls get their first send attempt in
\* non-decreasing start_stamp order whatever the order the provider returned
\* them in, and calls with equal start_stamp in the order of the fetch.
SendsInStartOrder ==
    \A p \in Procs :
       \A i, j \in 1..Len(inv[p].started) :
          i < j =>
             LET a == inv[p].started[i]
                 b == inv[p].started[j]
             IN  /\ Fetched(p, a).start_stamp <= Fetched(p, b).start_stamp
                 /\ Fetched(p, a).start_stamp = Fetched(p, b).start_stamp =>
                       FirstPos(inv[p].call_details, a) <
                          FirstPos(inv[p].call_details, b)

\* Two calls the provider returned in decreasing start_stamp order have both
\* been attempted.
SentOutOfFetchOrder ==
    /\ Len(inv[Main].started) = 2
    /\ inv[Main].call_details[1].start_stamp >
          inv[Main].call_details[2].start_stamp

\* C14: an invocation whose authentication fails returns 0 at once; the step
\* sends nothing to the channel and leaves both checkpoint files as they
\* were, absent ones absent.
AuthFailureChangesNothing ==
    [][\A p \in Procs :
          (inv[p].pc = "idle" /\ inv'[p].pc \notin {"idle", "denied"}
              /\ ~inv'[p].authed) =>
             /\ inv'[p].pc = "done"
             /\ inv'[p].ret = 0
             /\ inv'[p].started = <<>>
             /\ sentCount' = sentCount
             /\ timeFile' = timeFile
             /\ uuidFile' = uuidFile]_vars

\* An invocation has returned after a failed authentication and both
\* checkpoint files are still absent.
AuthFailedFilesAbsent ==
    /\ inv[Main].pc = "done"
    /\ ~inv[Main].authed
    /\ timeFile = Absent
    /\ uuidFile = Absent

\* C20: a fetch that fails is handled like an empty window: the step returns
\* 0, sends nothing, saves the invocation's current_time as the timestamp
\* and leaves the last uuid file alone.
FailedFetchLikeEmpty ==
    [][\A p \in Procs :
          (inv[p].pc = "fetch" /\ inv'[p].fetched = "error") =>
             /\ inv'[p].pc = "done"
             /\ inv'[p].ret = 0
             /\ inv'[p].started = <<>>
             /\ sentCount' = sentCount
             /\ timeFile' = inv[p].current_time
             /\ uuidFile' = uuidFile]_vars

\* An invocation has returned after a failed fetch although the provider
\* held calls of its window.
FetchFailedOverCalls ==
    /\ inv[Main].pc = "done"
    /\ inv[Main].fetched = "error"
    /\ Window(calls, inv[Main].last_check, inv[Main].current_time) # <<>>
    /\ timeFile = inv[Main].current_time

\* C12: when an invocation ends, by a return or by an exception, the
\* directory made for its archive has been removed, and removed once.
TempDirRemovedOnExit ==
    \A p \in Procs :
       /\ inv[p].removed <= inv[p].made
       /\ Ended(p) => inv[p].removed = inv[p].made

\* The ways the archive step ends without an archive.
ArchiveFailures == {"no_url", "download_failed", "empty", "extract_failed"}

\* The ids of the calls after the resume point, in sending order: all of
\* them without a last uuid, those after the last uuid if the list holds it.
AfterResume(p) ==
    LET sc == inv[p].sorted_calls
        lu == inv[p].last_uuid
    IN  IF lu = 0 THEN IdsOf(sc)
        ELSE IF Holds(sc, lu)
             THEN IdsOf(SubSeq(sc, FirstPos(sc, lu) + 1, Len(sc)))
             ELSE <<>>

\* C19: when no URL is returned, the download fails, the downloaded file is
\* empty or the extraction fails, the invocation goes on with temp_dir None
\* and an empty audio map, no directory of its own is left on disk, every
\* send it makes is a text send, and when it returns it has attempted every
\* call after the resume point.
ArchiveFailureNotFatal ==
    \A p \in Procs :
       inv[p].archive \in ArchiveFailures =>
          /\ inv[p].temp_dir = "none"
          /\ inv[p].audio_files = <<>>
          /\ ~OnDisk(p)
          /\ ~inv[p].sent_audio
          /\ \A i \in 1..Len(inv[p].attempts) : inv[p].attempts[i].kind = "text"
          /\ inv[p].pc = "done" => inv[p].started = AfterResume(p)

\* An invocation that resumed after a saved uuid has returned after a failed
\* extraction, having delivered a call.
ResumedWithoutArchive ==
    /\ inv[Main].pc = "done"
    /\ inv[Main].archive = "extract_failed"
    /\ inv[Main].last_uuid # 0
    /\ inv[Main].ret = 1
    /\ inv[Main].made = 1

\* C13: when the fetch returns an empty list the invocation saves the
\* current_time it read at its start as the timestamp, returns 0, sends
\* nothing, leaves the last uuid file alone, and never asks for the archive.
EmptyWindowAdvancesTime ==
    [][\A p \in Procs :
          inv'[p].fetched = "empty" =>
             /\ inv'[p].pc = "done"
             /\ inv'[p].ret = 0
             /\ inv'[p].started = <<>>
             /\ inv'[p].archive = ""
             /\ ~Resolved(p)'
             /\ inv[p].pc = "fetch" =>
                   /\ timeFile' = inv[p].current_time
                   /\ uuidFile' = uuidFile
                   /\ sentCount' = sentCount]_vars

\* An invocation found an empty window later than the time it was started
\* at, with a last uuid on file from an earlier one.
EmptyWindowKeptUuid ==
    /\ inv[Main].pc = "done"
    /\ inv[Main].fetched = "empty"
    /\ uuidFile \in Uuids
    /\ timeFile = inv[Main].current_time
    /\ inv[Main].last_check < inv[Main].current_time

\* The positions of the extracted files whose name contains the id of the
\* call at hand.
Matches(p) ==
    IF inv[p].temp_dir = "dir"
    THEN {i \in 1..Len(inv[p].audio_files) :
             Cur(p).uuid \in inv[p].audio_files[i].ids}
    ELSE {}

\* The first file whose name contains the id is not empty.
FirstMatchNonEmpty(p) ==
    \E i \in Matches(p) :
       /\ inv[p].audio_files[i].size > 0
       /\ \A j \in Matches(p) : j >= i

\* The first send attempt for the call at hand was an audio send: it was
\* delivered, or it failed and the text send is to follow.
AudioTried(p) ==
    \/ inv[p].sent_audio
    \/ inv[p].attempts # <<>> /\ inv[p].attempts[1].kind = "audio"

\* The step makes the first send attempt for a call.
FirstTry(p) ==
    /\ Resolved(p)
    /\ AtNewRecord(p)
    /\ inv'[p].started # inv[p].started

ResumePoint ==
    \A p \in Procs :
       inv[p].fetched = "list" =>
          /\ IsPrefix(inv[p].started, AfterResume(p))
          /\ \A u \in inv[p].sent :
                \E i \in 1..Len(AfterResume(p)) : AfterResume(p)[i] = u
          /\ inv[p].pc = "done" => inv[p].started = AfterResume(p)

\* With no last uuid on file an invocation has handled both calls of its
\* window, the first included.
HandledFromFirst ==
    /\ inv[Main].pc = "done"
    /\ inv[Main].last_uuid = 0
    /\ Len(inv[Main].sorted_calls) = 2
    /\ inv[Main].started = IdsOf(inv[Main].sorted_calls)

\* The invocation of p fetched calls, none of which has the last uuid it
\* read.
LastUuidMissing(p) ==
    /\ inv[p].fetched = "list"
    /\ inv[p].last_uuid # 0
    /\ ~Holds(inv[p].call_details, inv[p].last_uuid)

\* C30: an invocation that read a last uuid no fetched call has attempts
\* nothing, delivers nothing, writes neither checkpoint file and returns 0,
\* so that the next invocation starts from the same checkpoint.
MissingUuidBlocks ==
    [][\A p \in Procs :
          LastUuidMissing(p)' =>
             /\ inv'[p].started = <<>>
             /\ inv'[p].processed_count = 0
             /\ inv'[p].pc \in {"loop", "done"}
             /\ inv'[p].pc = "done" => inv'[p].ret = 0
             /\ LastUuidMissing(p) =>
                   /\ timeFile' = timeFile
                   /\ uuidFile' = uuidFile
                   /\ sentCount' = sentCount]_vars

\* An invocation has returned 0 from a window that held a call, the last
\* uuid on file being that of a call outside the window.
BlockedByMissingUuid ==
    /\ inv[Main].pc = "done"
    /\ LastUuidMissing(Main)
    /\ inv[Main].ret = 0
    /\ uuidFile = inv[Main].last_uuid
    /\ sentCount[inv[Main].call_details[1].uuid] = 0

\* C21: a read of the checkpoint that finds no timestamp file returns the
\* present time minus 24 hours, has saved that value when it returns, and
\* reads an empty last uuid; a read that finds a timestamp returns it and
\* leaves the file as it is.
BootstrapRead ==
    [][\A p \in Procs :
          (inv[p].pc = "read" /\ inv'[p].pc = "fetch") =>
             /\ timeFile = Absent =>
                   /\ inv'[p].last_check = clock - OneDay
                   /\ timeFile' = clock - OneDay
                   /\ inv'[p].last_uuid = 0
             /\ timeFile \notin {Absent, Torn} =>
                   /\ inv'[p].last_check = timeFile
                   /\ timeFile' = timeFile]_vars

\* A later invocation has read the default an earlier one saved, at a time
\* at which the default would have been larger.
RereadSavedDefault ==
    /\ inv[Main].no >= 2
    /\ inv[Main].pc = "fetch"
    /\ inv[Main].last_check = timeFile
    /\ inv[Main].last_check + OneDay < inv[Main].current_time
    /\ inv[Main].last_uuid = 0

\* C22: an invocation that has attempted a call makes the first attempt for
\* the next one only after the sleep of the inter-send delay, whatever the
\* outcome of the earlier call.
DelayBetweenCalls ==
    [][\A p \in Procs :
          (/\ AtNewRecord(p)
           /\ inv[p].started # <<>>
           /\ inv'[p].started # inv[p].started) =>
             inv[p].slept >= SendDelay]_vars

\* C28: for one call an invocation makes at most one audio attempt, first,
\* then at most two text attempts; it makes no attempt after one was
\* delivered and so delivers at most one message for the call.
AtMostThreeAttempts ==
    [][\A p \in Procs :
          LET a == inv'[p].attempts IN
          /\ Len(a) <= 2
          /\ \A i \in 1..Len(a) : a[i].kind = "audio" => i = 1
          /\ a # <<>> => inv'[p].pc \in {"send_text", "retry", "fallback"}
          /\ (a # <<>> /\ a[Len(a)].kind = "text") =>
                inv'[p].pc \in {"retry", "fallback"}
          /\ (inv[p].pc \in {"retry", "fallback"} /\ inv'[p] # inv[p]) =>
                inv'[p].pc \in {"save_uuid_only", "loop"}
          /\ (sentCount' # sentCount /\ inv'[p] # inv[p]) =>
                /\ inv[p].pc \in {"loop", "send_text", "retry", "fallback"}
                /\ Cur(p).uuid \notin inv[p].sent
                /\ inv'[p].pc \in WritePcs]_vars

\* The third attempt for a call is about to be made: the audio and the text
\* of the main path have failed.
ThirdAttemptPending ==
    /\ inv[Main].pc \in {"retry", "fallback"}
    /\ Len(inv[Main].attempts) = 2
    /\ inv[Main].attempts[1].kind = "audio"
    /\ inv[Main].attempts[2].kind = "text"

\* How far an invocation is from its end: eight for every call of the sorted
\* list not finished with, plus the steps left for the call at hand.
Measure(p) ==
    CASE inv[p].pc = "read" -> 8 * MaxCalls + 17
      [] inv[p].pc = "fetch" -> 8 * MaxCalls + 16
      [] inv[p].pc \in {"idle", "done", "raised", "denied"} -> 0
      [] OTHER ->
           8 * (Len(inv[p].sorted_calls) + 1 - inv[p].idx)
           + (CASE inv[p].pc = "loop" -> 7
                [] inv[p].pc = "send_text" -> 6
                [] inv[p].pc \in {"retry", "fallback"} -> 5
                [] inv[p].pc = "save_time" -> 3
                [] OTHER -> 2)

PeriodicTrigger ==
    (mode \in {"serving", "polling"} /\ inv[Main].pc = "idle"
        /\ invNo < MaxInv)
       ~> (inv[Main].pc # "idle")

\* C26: the file sent with a call's notification is the recording of that
\* call, so that no file goes out with two different calls, also when the
\* name of a file contains the id of another call.
AudioOfThisCall ==
    \A p \in Procs :
       (inv[p].pc = "save_time" /\ inv[p].sent_audio) =>
          inv[p].audio_files[AudioPath(p)].call = Cur(p).uuid

\* C29: every message an invocation sends while it handles a call, from the
\* main path or from an exception handler, is the text formatted from that
\* call, and the uuid saved after a send is that of the call whose text was
\* sent.
SendsTextOfThisCall ==
    [][\A p \in Procs :
          inv'[p] # inv[p] =>
             /\ (sentCount' # sentCount \/ faults' # faults) =>
                   inv'[p].message = MessageOf(Cur(p))
             /\ uuidFile' # uuidFile => uuidFile' = inv[p].message]_vars

\* C24: no character of the formatted message that comes from the caller,
\* the destination or the gateway of the record is one that the HTML parse
\* mode gives a meaning to.
FieldsNeutralized ==
    inv[Main].pc = "done" =>
       \A i \in 1..Len(inv[Main].message) :
          inv[Main].message[i].src = "field" =>
             inv[Main].message[i].text \notin Markup

\* C31: a step of get_period_calls, whichever command started it, leaves
\* the saved time and the saved call id as they are, and what it sends is
\* settled by its window alone: the loop starts at the first call of the
\* sorted window and every call before the one at hand was tried, whatever
\* the checkpoint holds.
PeriodLeavesCheckpoint ==
    [][\A p \in Procs :
          (inv'[p] # inv[p] /\ (IsPeriod(p) \/ inv'[p].period # "")) =>
             /\ timeFile' = timeFile
             /\ uuidFile' = uuidFile
             /\ inv'[p].pc = "p_fetch" =>
                   /\ inv'[p].last_check =
                         PeriodWindow(inv'[p].period, clock).from
                   /\ inv'[p].current_time =
                         PeriodWindow(inv'[p].period, clock).to
             /\ (inv[p].pc = "p_fetch" /\ inv'[p].pc = "p_loop") =>
                   /\ inv'[p].idx = 1
                   /\ inv'[p].sorted_calls =
                         SortedCalls(Window(calls, inv[p].last_check,
                                            inv[p].current_time))
             /\ inv'[p].pc \in {"p_loop", "p_send_text", "p_retry",
                                "p_fallback"} =>
                   \E n \in {inv'[p].idx - 1, inv'[p].idx} :
                      inv'[p].started =
                         IdsOf(SubSeq(inv'[p].sorted_calls, 1, n))]_vars

\* A command of the week has sent both calls of its window and returned
\* while the checkpoint names the last of them and the time of its start.
PeriodSentPastCheckpoint ==
    /\ inv[Main].period = "week"
    /\ inv[Main].pc = "done"
    /\ inv[Main].ret = 2
    /\ uuidFile = 2
    /\ timeFile = inv[Main].sorted_calls[2].start_stamp

\* C32: for the call at hand and the archive at hand, get_period_calls sends
\* an audio file exactly when process_new_calls would, and the same file.
SamePolicyPerRecord ==
    \A p \in Procs :
       (IsPeriod(p) /\ AtPeriodRecord(p) /\ Resolved(p)) =>
          /\ PeriodCanSendAudio(p) <=> CanSendAudio(p)
          /\ CanSendAudio(p) => PeriodAudioPath(p) = AudioPath(p)

====
